---- MODULE Spec2Model ----
(***************************************************************************)
(* Model of the dependency graph of utils/dependency_graph/src/lib.rs:     *)
(* DepGraph<T> (a registry of Arc<RwLock<Node<T>>>), get_or_add_node,      *)
(* fetch_existing, add_edge and the ancestor walk                         *)
(* verify_if_exists_in_parents.                                            *)
(*                                                                         *)
(* A node instance (one Arc allocation) is a positive integer, its index   *)
(* in the heap sequences value / childs / parents.  Reference identity     *)
(* (Arc::ptr_eq) is equality of these integers; value equality (T: Eq) is  *)
(* equality of value[n].                                                   *)
(***************************************************************************)
EXTENDS Integers, Sequences, FiniteSets, Bags, TLC

\* ---------------------------------------------------------------- bounds
\* Number of different values of type T handed to get_or_add_node.
MaxValue == 3
\* Total number of edge entries the model lets the graph hold.
MaxEdges == 3
\* Number of lock poisonings the environment performs.
MaxPoison == 1

\* The values themselves: T is only compared for equality and formatted, so
\* which values they are does not matter; they are taken apart from the
\* instance numbers.
ValueOf(k) == 10 + k
Values == {ValueOf(k) : k \in 1 .. MaxValue}

VARIABLES
    value,      \* heap: value[n] is Node.value of instance n
    childs,     \* heap: childs[n] is Node.childs of instance n (instances)
    parents,    \* heap: parents[n] is Node.parents of instance n (instances)
    nodes,      \* DepGraph.nodes: the registry, a sequence of instances
    poisoned,   \* instances whose RwLock is poisoned
    ret,        \* ret[t]: the value returned by the last completed call of t
                \* (none when t has dropped something since)
    pc,         \* pc[t]: where thread t stands inside add_edge, or "idle"
    call,       \* call[t]: the arguments of the add_edge call t is running
    walk,       \* walk[t]: the live invocations of the ancestor walk of t
    wheld,      \* wheld[t]: the instances whose write lock t holds
    ncalls,     \* number of add_edge calls started by threads so far
    handles,    \* history: the pairs <<v, n>>, get_or_add_node(v) returned Ok(n)
    succ,       \* history: the bag of pairs <<p, c>>, add_edge(p, c) returned Ok
    dropped,    \* the DepGraph value, and with it the registry, has been dropped
    released    \* instances of which the callers have dropped every handle

heap == <<value, childs, parents, nodes>>
thr == <<pc, call, walk, wheld, ncalls>>
hist == <<handles, succ>>
refs == <<dropped, released>>
vars == <<value, childs, parents, nodes, poisoned, ret, pc, call, walk, wheld,
          ncalls, handles, succ, dropped, released>>

\* The threads that call into the graph; Caller is the one of sequential use.
Threads == {"t1", "t2"}
Caller == "t1"

\* Every instance allocated so far.
Instances == 1 .. Len(value)

\* ---------------------------------------------------------------- results
\* Result values of the two operations.
RetNone == [kind |-> "None", val |-> <<>>]
Ok == [kind |-> "Ok", val |-> <<>>]
OkNode(n) == [kind |-> "Node", val |-> n]
RwLockPanic == [kind |-> "RwLockPanic", val |-> <<>>]
CyclicRelation(s) == [kind |-> "CyclicRelation", val |-> s]
SameNode(s) == [kind |-> "SameNode", val |-> s]
\* The call unwound with a panic instead of returning.
Panicked == [kind |-> "Panic", val |-> <<>>]

IsErr(r) == r.kind \in {"RwLockPanic", "CyclicRelation", "SameNode"}

\* T::to_string for the integer values of the model: the decimal digits,
\* most significant first.
RECURSIVE to_string(_)
to_string(v) ==
    IF v < 10 THEN <<v>> ELSE Append(to_string(v \div 10), v % 10)

\* ---------------------------------------------------------------- helpers
Range(s) == {s[i] : i \in 1 .. Len(s)}

\* The instances of S and those reachable from them by steps of rel
\* (rel[n] a sequence of instances).
RECURSIVE Closure(_, _)
Closure(rel, S) ==
    LET T == S \cup UNION {Range(rel[n]) : n \in S}
    IN  IF T = S THEN S ELSE Closure(rel, T)

\* Number of entries of all childs lists together.
RECURSIVE SumLen(_, _)
SumLen(ss, k) == IF k = 0 THEN 0 ELSE Len(ss[k]) + SumLen(ss, k - 1)
EdgeCount == SumLen(childs, Len(childs))

\* Deepest recursion of the ancestor walk the model follows; the code's
\* recursion has no limit of its own.
MaxDepth == 6

NoCall == [parent |-> 0, child |-> 0]

\* Some thread holds the write lock of n / a walk holds its read lock.
WriteHeld(n) == \E t \in Threads : n \in wheld[t]
ReadHeld(n) == \E t \in Threads : \E f \in walk[t] : f.st = "held" /\ f.node = n

\* ---------------------------------------------------------------- ownership
\* The instances to which a caller holds a handle (an Arc returned by
\* get_or_add_node and not dropped since).
Held == {h[2] : h \in handles} \ released

\* The instances with a strong reference from outside the nodes: those of
\* the registry while the graph exists, and those the callers hold.
Roots == (IF dropped THEN {} ELSE Range(nodes)) \cup Held

\* The instances that are still allocated: a node lives as long as a strong
\* reference to it does, and the strong references are the roots and the
\* childs entries of living nodes (parents entries are Weak).
Live == Closure(childs, Roots)

\* ---------------------------------------------------------------- Init
\* DepGraph::new(): an empty registry, nothing allocated.
Init ==
    /\ value = <<>>
    /\ childs = <<>>
    /\ parents = <<>>
    /\ nodes = <<>>
    /\ poisoned = {}
    /\ ret = [t \in Threads |-> RetNone]
    /\ pc = [t \in Threads |-> "idle"]
    /\ call = [t \in Threads |-> NoCall]
    /\ walk = [t \in Threads |-> {}]
    /\ wheld = [t \in Threads |-> {}]
    /\ ncalls = 0
    /\ handles = {}
    /\ succ = EmptyBag
    /\ dropped = FALSE
    /\ released = {}

\* ---------------------------------------------------------------- get_or_add_node
\* Registry positions whose node carries value v.
Matches(v) == {i \in 1 .. Len(nodes) : value[nodes[i]] = v}

\* Position of the first match (find_first), 0 when there is none.
FirstMatch(v) ==
    IF Matches(v) = {} THEN 0
    ELSE CHOOSE i \in Matches(v) : \A j \in Matches(v) : i <= j

\* Registry positions find_first has to examine: everything up to and
\* including the first match, everything when there is no match.
MustExamine(v) ==
    IF FirstMatch(v) = 0 THEN 1 .. Len(nodes) ELSE 1 .. FirstMatch(v)

\* Variant of fetch_existing whose scan stops one short of the end of the
\* registry.
fetch_existing_skips_last(v) ==
    LET seen == {i \in Matches(v) : i < Len(nodes)}
        first == IF seen = {} THEN 0
                 ELSE CHOOSE i \in seen : \A j \in seen : i <= j
        upto == IF first = 0 THEN Len(nodes) - 1 ELSE first
        must == \E i \in 1 .. upto : nodes[i] \in poisoned
        may == \E i \in 1 .. Len(nodes) - 1 : nodes[i] \in poisoned
        found == IF first = 0 THEN RetNone ELSE OkNode(nodes[first])
    IN  IF must THEN {Panicked}
        ELSE IF may THEN {found, Panicked}
        ELSE {found}

\* fetch_existing: the outcomes the parallel scan can produce.  Reading a
\* poisoned lock panics (.expect); positions after the first match may or
\* may not be examined.
fetch_existing(v) ==
    LET must == \E i \in MustExamine(v) : nodes[i] \in poisoned
        may == \E i \in 1 .. Len(nodes) : nodes[i] \in poisoned
        found == IF FirstMatch(v) = 0 THEN RetNone
                 ELSE OkNode(nodes[FirstMatch(v)])
    IN  IF must THEN {Panicked}
        ELSE IF may THEN {found, Panicked}
        ELSE {found}

\* Variant of get_or_add_node that returns the new node without pushing
\* it on the registry.
get_or_add_node_unregistered(t, v) ==
    \E f \in {RetNone} \cup {OkNode(nodes[i]) : i \in Matches(v)} :
        /\ f.kind = "Node" => f.val = nodes[FirstMatch(v)]
        /\ f.kind = "None" => Matches(v) = {}
        /\ IF f.kind = "None"
           THEN /\ value' = Append(value, v)
                /\ childs' = Append(childs, <<>>)
                /\ parents' = Append(parents, <<>>)
                /\ nodes' = nodes
                /\ ret' = [ret EXCEPT ![t] = OkNode(Len(value) + 1)]
                /\ handles' = handles \cup {<<v, Len(value) + 1>>}
           ELSE /\ UNCHANGED <<value, childs, parents, nodes>>
                /\ ret' = [ret EXCEPT ![t] = f]
                /\ handles' = handles \cup {<<v, f.val>>}

\* Variant of get_or_add_node without the lookup: every call allocates and
\* registers a node.
get_or_add_node_no_lookup(t, v) ==
    /\ value' = Append(value, v)
    /\ childs' = Append(childs, <<>>)
    /\ parents' = Append(parents, <<>>)
    /\ nodes' = Append(nodes, Len(value) + 1)
    /\ ret' = [ret EXCEPT ![t] = OkNode(Len(value) + 1)]
    /\ handles' = handles \cup {<<v, Len(value) + 1>>}

\* Variant of get_or_add_node that puts the new node at the front of the
\* registry.
get_or_add_node_push_front(t, v) ==
    \E f \in fetch_existing(v) :
        IF f.kind = "None"
        THEN /\ value' = Append(value, v)
             /\ childs' = Append(childs, <<>>)
             /\ parents' = Append(parents, <<>>)
             /\ nodes' = <<Len(value) + 1>> \o nodes
             /\ ret' = [ret EXCEPT ![t] = OkNode(Len(value) + 1)]
             /\ handles' = handles \cup {<<v, Len(value) + 1>>}
        ELSE /\ UNCHANGED <<value, childs, parents, nodes>>
             /\ ret' = [ret EXCEPT ![t] = f]
             /\ handles' = IF f.kind = "Node" THEN handles \cup {<<v, f.val>>}
                           ELSE handles

\* get_or_add_node(value) called by t: return the existing node, or allocate
\* a node with empty adjacency, push it on the registry and return it.
get_or_add_node(t, v) ==
    \E f \in fetch_existing(v) :
        IF f.kind = "None"
        THEN /\ value' = Append(value, v)
             /\ childs' = Append(childs, <<>>)
             /\ parents' = Append(parents, <<>>)
             /\ nodes' = Append(nodes, Len(value) + 1)
             /\ ret' = [ret EXCEPT ![t] = OkNode(Len(value) + 1)]
             /\ handles' = handles \cup {<<v, Len(value) + 1>>}
        ELSE /\ UNCHANGED <<value, childs, parents, nodes>>
             /\ ret' = [ret EXCEPT ![t] = f]
             /\ handles' = IF f.kind = "Node" THEN handles \cup {<<v, f.val>>}
                           ELSE handles

\* ---------------------------------------------------------------- add_edge
Overflow == [kind |-> "Overflow", val |-> <<>>]

\* Variant of the walk that looks at the node and its immediate parents only.
verify_direct_parents_only(n, c, fuel) ==
    IF n \in poisoned THEN {RwLockPanic}
    ELSE IF n = c THEN {CyclicRelation(to_string(value[n]))}
    ELSE LET errs == UNION {IF parents[n][i] \in poisoned THEN {RwLockPanic}
                            ELSE IF parents[n][i] = c
                            THEN {CyclicRelation(to_string(value[c]))}
                            ELSE {}
                            : i \in 1 .. Len(parents[n])}
         IN  IF errs = {} THEN {Ok} ELSE errs

\* Variant of the walk that follows only the first entry of each parents
\* list.
RECURSIVE verify_first_parent_only(_, _, _)
verify_first_parent_only(n, c, fuel) ==
    IF fuel = 0 THEN {Overflow}
    ELSE IF n \in poisoned THEN {RwLockPanic}
    ELSE IF n = c THEN {CyclicRelation(to_string(value[n]))}
    ELSE IF parents[n] = <<>> THEN {Ok}
    ELSE verify_first_parent_only(parents[n][1], c, fuel - 1)

\* Variant of the walk that goes downward, through childs, from the parent.
RECURSIVE verify_walks_childs(_, _, _)
verify_walks_childs(n, c, fuel) ==
    IF fuel = 0 THEN {Overflow}
    ELSE IF n \in poisoned THEN {RwLockPanic}
    ELSE IF n = c THEN {CyclicRelation(to_string(value[n]))}
    ELSE LET errs == UNION {verify_walks_childs(childs[n][i], c, fuel - 1) \ {Ok}
                            : i \in 1 .. Len(childs[n])}
         IN  IF errs = {} THEN {Ok} ELSE errs

\* Variant of the walk that reports a lock it cannot read as the node at
\* which a cycle closes, instead of as a lock failure.
RECURSIVE verify_lock_error_as_cycle(_, _, _)
verify_lock_error_as_cycle(n, c, fuel) ==
    IF fuel = 0 THEN {Overflow}
    ELSE IF n \in poisoned \/ n = c THEN {CyclicRelation(to_string(value[n]))}
    ELSE LET errs == UNION {verify_lock_error_as_cycle(parents[n][i], c, fuel - 1) \ {Ok}
                            : i \in 1 .. Len(parents[n])}
         IN  IF errs = {} THEN {Ok} ELSE errs

\* Variant of the walk in which the result of the iteration over the
\* parents is the result of whichever branch finishes last, so that a
\* branch that succeeds can hide the error of a sibling.
RECURSIVE verify_last_branch_wins(_, _, _)
verify_last_branch_wins(n, c, fuel) ==
    IF fuel = 0 THEN {Overflow}
    ELSE IF n \in poisoned THEN {RwLockPanic}
    ELSE IF n = c THEN {CyclicRelation(to_string(value[n]))}
    ELSE IF parents[n] = <<>> THEN {Ok}
    ELSE UNION {verify_last_branch_wins(parents[n][i], c, fuel - 1)
                : i \in 1 .. Len(parents[n])}

\* Variant of the walk that, when it finds the child among the parents of
\* a node, reports the value of that node.
RECURSIVE verify_reports_descendant(_, _, _)
verify_reports_descendant(n, c, fuel) ==
    IF fuel = 0 THEN {Overflow}
    ELSE IF n \in poisoned THEN {RwLockPanic}
    ELSE IF n = c THEN {CyclicRelation(to_string(value[n]))}
    ELSE LET errs == UNION {IF parents[n][i] = c /\ c \notin poisoned
                            THEN {CyclicRelation(to_string(value[n]))}
                            ELSE verify_reports_descendant(parents[n][i], c, fuel - 1) \ {Ok}
                            : i \in 1 .. Len(parents[n])}
         IN  IF errs = {} THEN {Ok} ELSE errs

\* Variant of the walk for which a parent that cannot be upgraded is a
\* failure, reported like a lock that cannot be read.
RECURSIVE verify_dead_parent_is_error(_, _, _)
verify_dead_parent_is_error(n, c, fuel) ==
    IF fuel = 0 THEN {Overflow}
    ELSE IF n \in poisoned THEN {RwLockPanic}
    ELSE IF n = c THEN {CyclicRelation(to_string(value[n]))}
    ELSE LET errs == UNION {IF parents[n][i] \in Live
                            THEN verify_dead_parent_is_error(parents[n][i], c, fuel - 1) \ {Ok}
                            ELSE {RwLockPanic}
                            : i \in 1 .. Len(parents[n])}
         IN  IF errs = {} THEN {Ok} ELSE errs

\* verify_if_exists_in_parents(parent_ref = n, child_ref = c): the results
\* the walk can return.  The read lock of n is taken first, then identity
\* with the child is tested, then every parent is walked (par_iter +
\* try_for_each: any failing branch may be the one reported); a parent
\* whose Weak cannot be upgraded, its node being gone, is passed over.
RECURSIVE verify_if_exists_in_parents(_, _, _)
verify_if_exists_in_parents(n, c, fuel) ==
    IF fuel = 0 THEN {Overflow}
    ELSE IF n \in poisoned THEN {RwLockPanic}
    ELSE IF n = c THEN {CyclicRelation(to_string(value[n]))}
    ELSE LET errs == UNION {IF parents[n][i] \in Live
                            THEN verify_if_exists_in_parents(parents[n][i], c, fuel - 1) \ {Ok}
                            ELSE {}
                            : i \in 1 .. Len(parents[n])}
         IN  IF errs = {} THEN {Ok} ELSE errs

\* add_edge, after a successful walk: the two write locks (child first),
\* then the comparison of the two values.  "Push" stands for reaching the
\* two pushes.
lock_and_compare(p, c) ==
    IF c \in poisoned \/ p \in poisoned THEN RwLockPanic
    ELSE IF value[p] = value[c] THEN SameNode(to_string(value[p]))
    ELSE Ok

\* Variant of add_edge that locks the parent and pushes the child on its
\* list before it asks for the child's write lock.
add_edge_push_before_child_lock(t, p, c) ==
    \E w \in verify_if_exists_in_parents(p, c, MaxDepth) :
        LET r == IF w # Ok THEN w ELSE lock_and_compare(p, c)
        IN  /\ ret' = [ret EXCEPT ![t] = r]
            /\ childs' = IF w = Ok /\ p \notin poisoned
                         THEN [childs EXCEPT ![p] = Append(@, c)]
                         ELSE childs
            /\ IF r = Ok
               THEN /\ parents' = [parents EXCEPT ![c] = Append(@, p)]
                    /\ succ' = succ (+) SetToBag({<<p, c>>})
               ELSE UNCHANGED <<parents, succ>>

\* Variant of add_edge that forgets the back-reference: the child's parents
\* list is left alone.
add_edge_no_backref(t, p, c) ==
    \E w \in verify_if_exists_in_parents(p, c, MaxDepth) :
        LET r == IF w # Ok THEN w ELSE lock_and_compare(p, c)
        IN  /\ ret' = [ret EXCEPT ![t] = r]
            /\ IF r = Ok
               THEN /\ childs' = [childs EXCEPT ![p] = Append(@, c)]
                    /\ succ' = succ (+) SetToBag({<<p, c>>})
                    /\ UNCHANGED parents
               ELSE UNCHANGED <<childs, parents, succ>>

\* Variant of add_edge that inserts the new entries at the front of the two
\* lists.
add_edge_push_front(t, p, c) ==
    \E w \in verify_if_exists_in_parents(p, c, MaxDepth) :
        LET r == IF w # Ok THEN w ELSE lock_and_compare(p, c)
        IN  /\ ret' = [ret EXCEPT ![t] = r]
            /\ IF r = Ok
               THEN /\ childs' = [childs EXCEPT ![p] = <<c>> \o @]
                    /\ parents' = [parents EXCEPT ![c] = <<p>> \o @]
                    /\ succ' = succ (+) SetToBag({<<p, c>>})
               ELSE UNCHANGED <<childs, parents, succ>>

\* Variant of add_edge that records the back-reference only for the first
\* edge between two nodes.
add_edge_backref_once(t, p, c) ==
    \E w \in verify_if_exists_in_parents(p, c, MaxDepth) :
        LET r == IF w # Ok THEN w ELSE lock_and_compare(p, c)
        IN  /\ ret' = [ret EXCEPT ![t] = r]
            /\ IF r = Ok
               THEN /\ childs' = [childs EXCEPT ![p] = Append(@, c)]
                    /\ parents' = IF p \in Range(parents[c]) THEN parents
                                  ELSE [parents EXCEPT ![c] = Append(@, p)]
                    /\ succ' = succ (+) SetToBag({<<p, c>>})
               ELSE UNCHANGED <<childs, parents, succ>>

\* Variant of add_edge that leaves the lists alone when the parent already
\* has the child in its list, and reports success.
add_edge_dedup(t, p, c) ==
    \E w \in verify_if_exists_in_parents(p, c, MaxDepth) :
        LET r == IF w # Ok THEN w ELSE lock_and_compare(p, c)
        IN  /\ ret' = [ret EXCEPT ![t] = r]
            /\ IF r = Ok /\ c \notin Range(childs[p])
               THEN /\ childs' = [childs EXCEPT ![p] = Append(@, c)]
                    /\ parents' = [parents EXCEPT ![c] = Append(@, p)]
                    /\ succ' = succ (+) SetToBag({<<p, c>>})
               ELSE UNCHANGED <<childs, parents, succ>>

\* Variant of add_edge that does not walk the ancestors of the parent
\* before it locks and pushes.
add_edge_without_walk(t, p, c) ==
    LET r == lock_and_compare(p, c)
    IN  /\ ret' = [ret EXCEPT ![t] = r]
        /\ IF r = Ok
           THEN /\ childs' = [childs EXCEPT ![p] = Append(@, c)]
                /\ parents' = [parents EXCEPT ![c] = Append(@, p)]
                /\ succ' = succ (+) SetToBag({<<p, c>>})
           ELSE UNCHANGED <<childs, parents, succ>>

\* add_edge(parent_ref = p, child_ref = c) called by t, as one step.
add_edge(t, p, c) ==
    \E w \in verify_if_exists_in_parents(p, c, MaxDepth) :
        LET r == IF w # Ok THEN w ELSE lock_and_compare(p, c)
        IN  /\ ret' = [ret EXCEPT ![t] = r]
            /\ IF r = Ok
               THEN /\ childs' = [childs EXCEPT ![p] = Append(@, c)]
                    /\ parents' = [parents EXCEPT ![c] = Append(@, p)]
                    /\ succ' = succ (+) SetToBag({<<p, c>>})
               ELSE UNCHANGED <<childs, parents, succ>>

\* ---------------------------------------------------------------- sequential use
\* A call made while no other call is running, taken as one step.
\* get_or_add_node needs the graph (&mut self), which it has to itself; it
\* reads the value of every node it examines under that node's read lock.
GetOrAddNode(t, v) ==
    /\ ~dropped
    /\ pc[t] = "idle"
    /\ \A i \in MustExamine(v) : ~WriteHeld(nodes[i])
    /\ get_or_add_node(t, v)
    /\ UNCHANGED <<poisoned, thr, succ, refs>>

AddEdge(t, p, c) ==
    /\ \A u \in Threads : pc[u] = "idle"
    /\ add_edge(t, p, c)
    /\ UNCHANGED <<value, nodes, poisoned, thr, handles, refs>>

\* The values a caller passes to get_or_add_node, at most max different
\* ones: any value passed before, or a new one.  Values are interchangeable
\* (T: Eq is all the code uses), so the k-th new value is named ValueOf(k).
Inputs(max) ==
    LET used == {h[1] : h \in handles}
    IN  used \cup {ValueOf(k) : k \in {j \in 1 .. max : j = Cardinality(used) + 1}}

Next ==
    \/ \E v \in Inputs(MaxValue) : GetOrAddNode(Caller, v)
    \/ \E p \in Instances, c \in Instances :
        AddEdge(Caller, p, c) /\ EdgeCount' <= MaxEdges

Spec == Init /\ [][Next]_vars

\* ---------------------------------------------------------------- poisoned locks
\* A holder of a handle takes the node's write lock and panics while holding
\* it: the lock is released poisoned.
Poison(n) ==
    /\ ~WriteHeld(n) /\ ~ReadHeld(n)
    /\ n \notin poisoned
    /\ poisoned' = poisoned \cup {n}
    /\ UNCHANGED <<heap, ret, thr, hist, refs>>

\* Bounds of the specification with poisoned locks.
MaxPoisonValue == 3
MaxPoisonEdges == 1

PoisonNext ==
    \/ \E v \in Inputs(MaxPoisonValue) : GetOrAddNode(Caller, v)
    \/ \E p \in Instances, c \in Instances :
        AddEdge(Caller, p, c) /\ EdgeCount' <= MaxPoisonEdges
    \/ \E n \in Instances : Poison(n) /\ Cardinality(poisoned') <= MaxPoison

PoisonSpec == Init /\ [][PoisonNext]_vars

\* ---------------------------------------------------------------- reclaimed nodes
\* The DepGraph value goes out of scope: the registry and its strong
\* references are released.  The handles the callers hold stay usable.
DropGraph ==
    /\ ~dropped
    /\ \A u \in Threads : pc[u] = "idle"
    /\ dropped' = TRUE
    /\ ret' = [ret EXCEPT ![Caller] = RetNone]
    /\ UNCHANGED <<heap, poisoned, thr, hist, released>>

\* The callers drop every handle they hold to n.  Before the graph is
\* dropped this frees nothing and the handle can be had again from
\* get_or_add_node, so handles are taken to be dropped after the graph.
DropHandle(n) ==
    /\ dropped
    /\ \A u \in Threads : pc[u] = "idle"
    /\ n \in Held
    /\ released' = released \cup {n}
    /\ ret' = [ret EXCEPT ![Caller] = RetNone]
    /\ UNCHANGED <<heap, poisoned, thr, hist, dropped>>

\* Bounds of the specification with reclaimed nodes.
MaxDropValue == 3
MaxDropEdges == 2

\* add_edge takes two handles: the caller has to hold them.
DropNext ==
    \/ \E v \in Inputs(MaxDropValue) : GetOrAddNode(Caller, v)
    \/ \E p \in Held, c \in Held :
        AddEdge(Caller, p, c) /\ EdgeCount' <= MaxDropEdges
    \/ DropGraph
    \/ \E n \in Instances : DropHandle(n)

DropSpec == Init /\ [][DropNext]_vars

\* ---------------------------------------------------------------- concurrent use
\* add_edge run by a thread, one step per lock acquisition / list update.
\* An invocation of verify_if_exists_in_parents is a frame: path is the
\* sequence of parents positions that led to it from the call's parent_ref,
\* node its parent_ref, st "wait" before its read lock is taken and "held"
\* after, todo the parents positions not yet started, res what its
\* try_for_each has collected.
Frame(path, n, st, todo, res) ==
    [path |-> path, node |-> n, st |-> st, todo |-> todo, res |-> res]

Front(s) == SubSeq(s, 1, Len(s) - 1)

\* add_edge entered: verify_if_exists_in_parents(parent_ref, child_ref) starts.
CallAddEdge(t, p, c) ==
    /\ pc[t] = "idle"
    /\ pc' = [pc EXCEPT ![t] = "verify"]
    /\ call' = [call EXCEPT ![t] = [parent |-> p, child |-> c]]
    /\ walk' = [walk EXCEPT ![t] = {Frame(<<>>, p, "wait", {}, Ok)}]
    /\ ncalls' = ncalls + 1
    /\ UNCHANGED <<heap, poisoned, ret, wheld, hist, refs>>

\* Frame f of t returns r: its read lock is dropped; the root's result
\* decides how add_edge goes on, any other frame hands r to the try_for_each
\* of the frame that started it (which keeps one of the errors it has seen).
Finish(t, f, r) ==
    IF f.path = <<>>
    THEN /\ walk' = [walk EXCEPT ![t] = {}]
         /\ IF r = Ok
            THEN /\ pc' = [pc EXCEPT ![t] = "lockChild"]
                 /\ UNCHANGED <<ret, call>>
            ELSE /\ pc' = [pc EXCEPT ![t] = "idle"]
                 /\ ret' = [ret EXCEPT ![t] = r]
                 /\ call' = [call EXCEPT ![t] = NoCall]
    ELSE /\ \E g \in walk[t] :
            /\ g.path = Front(f.path)
            /\ \E keep \in (IF r = Ok THEN {g.res}
                            ELSE IF g.res = Ok THEN {r} ELSE {g.res, r}) :
                walk' = [walk EXCEPT ![t] =
                            (@ \ {f, g}) \cup {[g EXCEPT !.res = keep]}]
         /\ UNCHANGED <<pc, ret, call>>

\* Variant of lines 184-191 without the identity test: the walk goes on to
\* the parents of a node that is the child itself.
WalkEnter_no_identity_test(t, f) ==
    /\ pc[t] = "verify"
    /\ f \in walk[t] /\ f.st = "wait"
    /\ ~WriteHeld(f.node)
    /\ IF f.node \in poisoned THEN Finish(t, f, RwLockPanic)
       ELSE /\ walk' = [walk EXCEPT ![t] = (@ \ {f}) \cup
                   {[f EXCEPT !.st = "held",
                              !.todo = 1 .. Len(parents[f.node])]}]
            /\ UNCHANGED <<pc, ret, call>>
    /\ UNCHANGED <<heap, poisoned, wheld, ncalls, hist, refs>>

\* Lines 184-191: take the read lock of the frame's node, test identity with
\* the child.  The read lock is granted whenever no writer holds the lock
\* (whether a waiting writer holds readers back depends on the platform; a
\* lock that does so only removes interleavings).
WalkEnter(t, f) ==
    /\ pc[t] = "verify"
    /\ f \in walk[t] /\ f.st = "wait"
    /\ ~WriteHeld(f.node)
    /\ IF f.node \in poisoned THEN Finish(t, f, RwLockPanic)
       ELSE IF f.node = call[t].child
       THEN Finish(t, f, CyclicRelation(to_string(value[f.node])))
       ELSE /\ walk' = [walk EXCEPT ![t] = (@ \ {f}) \cup
                   {[f EXCEPT !.st = "held",
                              !.todo = 1 .. Len(parents[f.node])]}]
            /\ UNCHANGED <<pc, ret, call>>
    /\ UNCHANGED <<heap, poisoned, wheld, ncalls, hist, refs>>

\* Lines 193-200: the closure of try_for_each starts on parents[i]; the
\* iteration is parallel, so any position not yet started may be next, and
\* none is started once the iteration has seen an error.  A parent that
\* cannot be upgraded is passed over.
WalkSpawn(t, f, i) ==
    /\ pc[t] = "verify"
    /\ f \in walk[t] /\ f.st = "held" /\ f.res = Ok
    /\ i \in f.todo
    /\ Len(f.path) < MaxDepth
    /\ walk' = [walk EXCEPT ![t] = (@ \ {f}) \cup
           {[f EXCEPT !.todo = @ \ {i}]} \cup
           (IF parents[f.node][i] \in Live
            THEN {Frame(Append(f.path, i), parents[f.node][i], "wait", {}, Ok)}
            ELSE {})]
    /\ UNCHANGED <<heap, poisoned, ret, pc, call, wheld, ncalls, hist, refs>>

\* Lines 203-206: the iteration is over (or cut short by an error) and
\* every closure it started has returned.
WalkLeave(t, f) ==
    /\ pc[t] = "verify"
    /\ f \in walk[t] /\ f.st = "held"
    /\ f.todo = {} \/ f.res # Ok
    /\ ~\E g \in walk[t] : Len(g.path) > 0 /\ Front(g.path) = f.path
    /\ Finish(t, f, f.res)
    /\ UNCHANGED <<heap, poisoned, wheld, ncalls, hist, refs>>

\* Line 157: child_ref.write().
LockChild(t) ==
    /\ pc[t] = "lockChild"
    /\ ~WriteHeld(call[t].child) /\ ~ReadHeld(call[t].child)
    /\ IF call[t].child \in poisoned
       THEN /\ pc' = [pc EXCEPT ![t] = "idle"]
            /\ ret' = [ret EXCEPT ![t] = RwLockPanic]
            /\ call' = [call EXCEPT ![t] = NoCall]
            /\ UNCHANGED wheld
       ELSE /\ pc' = [pc EXCEPT ![t] = "lockParent"]
            /\ wheld' = [wheld EXCEPT ![t] = {call[t].child}]
            /\ UNCHANGED <<ret, call>>
    /\ UNCHANGED <<heap, poisoned, walk, ncalls, hist, refs>>

\* Lines 158-162: parent_ref.write(), then the comparison of the values.
LockParent(t) ==
    /\ pc[t] = "lockParent"
    /\ ~WriteHeld(call[t].parent) /\ ~ReadHeld(call[t].parent)
    /\ IF call[t].parent \in poisoned
           \/ value[call[t].parent] = value[call[t].child]
       THEN /\ pc' = [pc EXCEPT ![t] = "idle"]
            /\ ret' = [ret EXCEPT ![t] =
                   IF call[t].parent \in poisoned THEN RwLockPanic
                   ELSE SameNode(to_string(value[call[t].parent]))]
            /\ call' = [call EXCEPT ![t] = NoCall]
            /\ wheld' = [wheld EXCEPT ![t] = {}]
       ELSE /\ pc' = [pc EXCEPT ![t] = "pushChilds"]
            /\ wheld' = [wheld EXCEPT ![t] = @ \cup {call[t].parent}]
            /\ UNCHANGED <<ret, call>>
    /\ UNCHANGED <<heap, poisoned, walk, ncalls, hist, refs>>

\* Variant of line 164 in which the guard of the parent is dropped as soon
\* as the child is pushed on its list.
PushChilds_drops_parent_guard(t) ==
    /\ pc[t] = "pushChilds"
    /\ childs' = [childs EXCEPT ![call[t].parent] = Append(@, call[t].child)]
    /\ pc' = [pc EXCEPT ![t] = "pushParents"]
    /\ wheld' = [wheld EXCEPT ![t] = @ \ {call[t].parent}]
    /\ UNCHANGED <<value, parents, nodes, poisoned, ret, call, walk, ncalls, hist, refs>>

\* Line 164: parent.childs.push(child).
PushChilds(t) ==
    /\ pc[t] = "pushChilds"
    /\ childs' = [childs EXCEPT ![call[t].parent] = Append(@, call[t].child)]
    /\ pc' = [pc EXCEPT ![t] = "pushParents"]
    /\ UNCHANGED <<value, parents, nodes, poisoned, ret, call, walk, wheld, ncalls, hist, refs>>

\* Lines 165-168: child.parents.push(parent), Ok(()), both guards dropped.
PushParents(t) ==
    /\ pc[t] = "pushParents"
    /\ parents' = [parents EXCEPT ![call[t].child] = Append(@, call[t].parent)]
    /\ pc' = [pc EXCEPT ![t] = "idle"]
    /\ ret' = [ret EXCEPT ![t] = Ok]
    /\ call' = [call EXCEPT ![t] = NoCall]
    /\ wheld' = [wheld EXCEPT ![t] = {}]
    /\ succ' = succ (+) SetToBag({<<call[t].parent, call[t].child>>})
    /\ UNCHANGED <<value, childs, nodes, poisoned, walk, ncalls, handles, refs>>

\* Bounds of the concurrent specification.
MaxConcValue == 2
MaxConcCalls == 2

ConcNext ==
    \E t \in Threads :
        \/ \E v \in Inputs(MaxConcValue) : GetOrAddNode(t, v)
        \/ \E p \in Instances, c \in Instances :
            CallAddEdge(t, p, c) /\ ncalls < MaxConcCalls
        \/ \E f \in walk[t] : WalkEnter(t, f)
        \/ \E f \in walk[t] : \E i \in f.todo : WalkSpawn(t, f, i)
        \/ \E f \in walk[t] : WalkLeave(t, f)
        \/ LockChild(t)
        \/ LockParent(t)
        \/ PushChilds(t)
        \/ PushParents(t)

ConcSpec == Init /\ [][ConcNext]_vars

\* ---------------------------------------------------------------- graph notions
Descendants(n) == Closure(childs, Range(childs[n]))
Ancestors(n) == Closure(parents, Range(parents[n]))

\* c is a transitive ancestor of p: a chain c -> ... -> p of children edges.
IsAncestor(c, p) == p \in Descendants(c)

\* Occurrences of x in the sequence s.
Count(s, x) == Cardinality({i \in 1 .. Len(s) : s[i] = x})

\* ---------------------------------------------------------------- claims

\* C1: after any sequence of get_or_add_node and add_edge calls made one at
\* a time on a graph that starts empty, no node reaches itself through
\* children edges, and no node is among its own ancestors through parents
\* links.
C1_Acyclic ==
    \A n \in Instances : n \notin Descendants(n) /\ n \notin Ancestors(n)

\* A call that would have closed a cycle over a chain of two edges was made
\* and refused.
C1_Witness ==
    /\ ret[Caller].kind = "CyclicRelation"
    /\ \E a \in Instances, b \in Instances, c \in Instances :
        /\ a # b /\ b # c /\ a # c
        /\ b \in Range(childs[a]) /\ c \in Range(childs[b])

\* C2: when two threads concurrently call add_edge(A, B) and add_edge(B, A)
\* on nodes with no prior edge between them, a state in which both edges
\* A -> B and B -> A are present is never reached.
C2_NeverBothEdges ==
    \A a \in Instances, b \in Instances :
        ~(b \in Range(childs[a]) /\ a \in Range(childs[b]))

\* C3: add_edge(h, h) always fails with SameNode, and leaves the children
\* and parents lists of h as they were.
C3_SelfEdgeSameNode ==
    [][\A h \in Instances :
          AddEdge(Caller, h, h) =>
              /\ ret'[Caller].kind = "SameNode"
              /\ childs'[h] = childs[h] /\ parents'[h] = parents[h]]_vars

\* C4: if C is already a transitive ancestor of P (P # C), add_edge(P, C)
\* fails with CyclicRelation, and afterwards the children list of P does not
\* contain C and the parents list of C does not contain P.
C4_CycleRejected ==
    [][\A p \in Instances, c \in Instances :
          (p # c /\ IsAncestor(c, p) /\ AddEdge(Caller, p, c)) =>
              /\ ret'[Caller].kind = "CyclicRelation"
              /\ c \notin Range(childs'[p])
              /\ p \notin Range(parents'[c])]_vars

\* A call add_edge(p, c) was refused where c is an ancestor of p only
\* through an intermediate node.
C4_Witness ==
    /\ ret[Caller].kind = "CyclicRelation"
    /\ \E p \in Instances, c \in Instances :
        /\ p # c /\ IsAncestor(c, p)
        /\ c \notin Range(parents[p])
        /\ ret[Caller].val = to_string(value[c])

\* C5: all the handles get_or_add_node has returned for one value, whatever
\* calls were made in between, are the same node instance.
C5_IdentityStable ==
    \A g \in handles, h \in handles : g[1] = h[1] => g[2] = h[2]

\* get_or_add_node has just returned a node that was not the newest, in a
\* graph that already has an edge: a repeated call, with calls in between.
C5_Witness ==
    /\ ret[Caller].kind = "Node"
    /\ ret[Caller].val < Len(value)
    /\ EdgeCount > 0

\* C6: the registry holds exactly one node per distinct value passed to
\* get_or_add_node: no two registered nodes carry equal values, and the
\* registry size is the number of distinct values inserted.
C6_NoDuplication ==
    /\ \A i \in 1 .. Len(nodes), j \in 1 .. Len(nodes) :
        i # j => value[nodes[i]] # value[nodes[j]]
    /\ Len(nodes) = Cardinality({h[1] : h \in handles})

\* Several values were inserted, then the first of them once more: the
\* call returned the first registered node and the registry did not grow.
C6_Witness ==
    /\ Len(nodes) >= 2
    /\ ret[Caller] = OkNode(nodes[1])
    /\ Cardinality({h[1] : h \in handles}) >= 2

\* C7: whenever add_edge returns an error (SameNode, CyclicRelation or the
\* lock-poisoned error), the children and parents lists of every node are
\* what they were before the call.
C7_FailedCallNoChange ==
    [][\A p \in Instances, c \in Instances :
          (AddEdge(Caller, p, c) /\ IsErr(ret'[Caller])) =>
              (childs' = childs /\ parents' = parents)]_vars

\* add_edge has failed on a poisoned lock in a graph that has an edge.
C7_Witness ==
    /\ ret[Caller].kind = "RwLockPanic"
    /\ EdgeCount > 0

\* C8: no reachable state has two threads blocked for ever on each other's
\* node locks: neither two writers that each hold the lock the other asks
\* for, nor a writer that waits for a node an ancestor walk holds for
\* reading while that walk waits for a node the writer holds.
C8_NoDeadlock ==
    \A t \in Threads, u \in Threads :
        t # u /\ pc[t] = "lockParent" =>
            /\ ~(/\ pc[u] = "lockParent"
                 /\ call[t].parent \in wheld[u]
                 /\ call[u].parent \in wheld[t])
            /\ ~(\E g \in walk[u], f \in walk[u] :
                    /\ g.st = "held" /\ g.node = call[t].parent
                    /\ f.st = "wait" /\ f.node \in wheld[t]
                    /\ Len(g.path) < Len(f.path)
                    /\ SubSeq(f.path, 1, Len(g.path)) = g.path)

\* C9: for two distinct nodes, add_edge(parent, child) succeeds if and only
\* if child is not a transitive ancestor of parent in the current graph.
C9_RejectedIffCycle ==
    [][\A p \in Instances, c \in Instances :
          (p # c /\ AddEdge(Caller, p, c)) =>
              (ret'[Caller] = Ok <=> ~IsAncestor(c, p))]_vars

\* add_edge(p, c) has just succeeded although c was already a descendant of
\* p through another node m (several paths from p to c).
C9_Witness ==
    /\ ret[Caller] = Ok
    /\ \E p \in Instances, m \in Instances, c \in Instances :
        /\ p # m /\ m # c /\ p # c
        /\ Len(childs[p]) >= 2 /\ childs[p][Len(childs[p])] = c
        /\ m \in Range(childs[p]) /\ c \in Range(childs[m])
        /\ parents[c][Len(parents[c])] = p

\* C10: every list holds exactly the entries of the successful calls: c
\* occurs in the children of p, and p in the parents of c, as often as
\* add_edge(p, c) has succeeded; so the children (parents) count of a node
\* is the number of successful calls that named it as parent (child).  For
\* the edges 1->2, 1->3, 2->4, 3->4 the counts are (2,0), (1,1), (1,1), (0,2).
SuccAsParent(n) ==
    LET RECURSIVE Sum(_)
        Sum(k) == IF k = 0 THEN 0 ELSE CopiesIn(<<n, k>>, succ) + Sum(k - 1)
    IN  Sum(Len(value))
SuccAsChild(n) ==
    LET RECURSIVE Sum(_)
        Sum(k) == IF k = 0 THEN 0 ELSE CopiesIn(<<k, n>>, succ) + Sum(k - 1)
    IN  Sum(Len(value))
Diamond == SetToBag({<<1, 2>>, <<1, 3>>, <<2, 4>>, <<3, 4>>})
C10_EdgeAccounting ==
    /\ \A p \in Instances, c \in Instances :
        /\ Count(childs[p], c) = CopiesIn(<<p, c>>, succ)
        /\ Count(parents[c], p) = CopiesIn(<<p, c>>, succ)
    /\ \A n \in Instances :
        /\ Len(childs[n]) = SuccAsParent(n)
        /\ Len(parents[n]) = SuccAsChild(n)
    /\ succ = Diamond =>
        /\ Len(childs[1]) = 2 /\ Len(parents[1]) = 0
        /\ Len(childs[2]) = 1 /\ Len(parents[2]) = 1
        /\ Len(childs[3]) = 1 /\ Len(parents[3]) = 1
        /\ Len(childs[4]) = 0 /\ Len(parents[4]) = 2

\* Three successful calls: one node with two children, one with a child and
\* a parent, one with two parents.
C10_Witness ==
    /\ ret[Caller] = Ok
    /\ \E a \in Instances, b \in Instances, c \in Instances :
        /\ Len(childs[a]) = 2 /\ Len(parents[a]) = 0
        /\ Len(childs[b]) = 1 /\ Len(parents[b]) = 1
        /\ Len(childs[c]) = 0 /\ Len(parents[c]) = 2

\* C11: when get_or_add_node scans the registry and a node it has to read
\* has a poisoned lock, the call returns the RwLockPanic error value; it
\* does not panic, and the registry is unchanged.
C11_PoisonedScanReturnsError ==
    [][\A v \in Inputs(MaxPoisonValue) :
          (/\ \E i \in MustExamine(v) : nodes[i] \in poisoned
           /\ GetOrAddNode(Caller, v)) =>
              /\ ret'[Caller] = RwLockPanic
              /\ nodes' = nodes]_vars

\* The nodes a walk that starts at p may try to read: p, and the parents of
\* every node it could read (a node with a poisoned lock is not entered).
RECURSIVE WalkReach(_)
WalkReach(S) ==
    LET T == S \cup UNION {Range(parents[n]) : n \in S \ poisoned}
    IN  IF T = S THEN S ELSE WalkReach(T)
Visited(p) == WalkReach({p})

\* C12: if during add_edge(parent, child) the lock of parent, of child or of
\* an ancestor the walk visits is poisoned, the call does not report
\* success; and when no visited node is the child itself, the call returns
\* RwLockPanic.
C12_PoisonPropagates ==
    [][\A p \in Instances, c \in Instances :
          (/\ (Visited(p) \cup {c}) \cap poisoned # {}
           /\ AddEdge(Caller, p, c)) =>
              /\ ret'[Caller] # Ok
              /\ ret'[Caller].kind \in {"RwLockPanic", "CyclicRelation"}
              /\ c \notin Visited(p) => ret'[Caller] = RwLockPanic]_vars

\* add_edge has returned RwLockPanic in a graph where the only poisoned
\* lock is that of a node with a child: the parent of the call, or an
\* ancestor its walk visited.
C12_Witness ==
    /\ ret[Caller] = RwLockPanic
    /\ \E a \in poisoned : childs[a] # <<>>

\* C13: when several threads call get_or_add_node for the same value, each
\* call having the registry to itself, then in every order of the calls one
\* node carrying the value is created, and the handles the threads got all
\* refer to it.
C13_SameNodeForAllThreads ==
    /\ \A t \in Threads, u \in Threads :
        (/\ ret[t].kind = "Node" /\ ret[u].kind = "Node"
         /\ value[ret[t].val] = value[ret[u].val]) => ret[t].val = ret[u].val
    /\ \A h \in handles :
        /\ value[h[2]] = h[1]
        /\ Cardinality({n \in Instances : value[n] = h[1]}) = 1
        /\ Cardinality(Matches(h[1])) = 1

\* Both threads hold the handle their last call returned, it is the same
\* node, and it is not the only node of the graph.
C13_Witness ==
    /\ ret["t1"].kind = "Node"
    /\ ret["t2"] = ret["t1"]
    /\ Len(nodes) >= 2

\* The reference of C14: the walk of verify_if_exists_in_parents with the
\* parents of each node taken one after the other, in list order, depth
\* first, stopping at the first error.
RECURSIVE verify_sequential(_, _, _)
verify_sequential(n, c, fuel) ==
    IF fuel = 0 THEN Overflow
    ELSE IF n \in poisoned THEN RwLockPanic
    ELSE IF n = c THEN CyclicRelation(to_string(value[n]))
    ELSE LET RECURSIVE Each(_)
             Each(i) ==
                 IF i > Len(parents[n]) THEN Ok
                 ELSE LET r == verify_sequential(parents[n][i], c, fuel - 1)
                      IN  IF r # Ok THEN r ELSE Each(i + 1)
         IN  Each(1)

\* C14: with no lock poisoned, for every graph and every pair (parent,
\* child), the walk with the sibling branches run in parallel, in any order
\* and cut short by the first error, has one possible outcome, and it is the
\* outcome of the sequential depth-first walk: success, or the same error.
C14_ParallelEqualsSequential ==
    poisoned = {} =>
        \A p \in Instances, c \in Instances :
            verify_if_exists_in_parents(p, c, MaxDepth)
                = {verify_sequential(p, c, MaxDepth)}

\* add_edge(p, c) has just been refused by a walk with two sibling
\* branches at p, one that leads to c and one that does not; the branch
\* that fails is the second in list order.
C14_Witness ==
    /\ ret[Caller].kind = "CyclicRelation"
    /\ \E p \in Instances, c \in Instances :
        /\ p # c /\ Len(parents[p]) = 2
        /\ ret[Caller].val = to_string(value[c])
        /\ verify_sequential(parents[p][1], c, MaxDepth) = Ok
        /\ verify_sequential(parents[p][2], c, MaxDepth) # Ok

\* C15: a walk that runs concurrently with add_edge(parent, child) cannot
\* see the edge half applied: in every state where only one of the two
\* appends has happened, the thread that made it holds the write locks of
\* both nodes, so no other thread holds, or can take, a lock under which it
\* could read the lists of parent or child.
C15_NoPartialEdgeVisible ==
    \A p \in Instances, c \in Instances :
        Count(childs[p], c) # Count(parents[c], p) =>
            /\ \E t \in Threads :
                /\ pc[t] = "pushParents"
                /\ call[t] = [parent |-> p, child |-> c]
                /\ {p, c} \subseteq wheld[t]
            /\ ~ReadHeld(p) /\ ~ReadHeld(c)

\* One thread is between its two appends while the walk of the other
\* thread waits for the read lock of one of the two nodes.
C15_Witness ==
    \E t \in Threads, u \in Threads :
        /\ t # u /\ pc[t] = "pushParents"
        /\ Count(childs[call[t].parent], call[t].child)
               # Count(parents[call[t].child], call[t].parent)
        /\ \E f \in walk[u] :
            f.st = "wait" /\ f.node \in {call[t].parent, call[t].child}

\* C16: get_or_add_node(v) changes the graph only by possibly appending to
\* the registry.  If a node with value v exists, the registry and every
\* node's lists are unchanged; otherwise one node with value v and empty
\* childs and parents is appended at the end of the registry, and the
\* nodes that existed, with their lists, are unchanged.
C16_GetOrAddNodeFrame ==
    [][\A v \in Inputs(MaxValue) :
          GetOrAddNode(Caller, v) =>
              IF Matches(v) # {}
              THEN /\ nodes' = nodes /\ value' = value
                   /\ childs' = childs /\ parents' = parents
              ELSE /\ Len(nodes') = Len(nodes) + 1
                   /\ SubSeq(nodes', 1, Len(nodes)) = nodes
                   /\ Len(value') = Len(value) + 1
                   /\ LET n == nodes'[Len(nodes')]
                      IN  /\ n \notin Instances
                          /\ value'[n] = v
                          /\ childs'[n] = <<>> /\ parents'[n] = <<>>
                   /\ \A m \in Instances :
                       /\ value'[m] = value[m]
                       /\ childs'[m] = childs[m] /\ parents'[m] = parents[m]]_vars

\* get_or_add_node has returned the node at the end of the registry, which
\* has no edge, in a graph whose other nodes have edges.
C16_Witness ==
    /\ Len(nodes) >= 3
    /\ ret[Caller] = OkNode(nodes[Len(nodes)])
    /\ childs[nodes[Len(nodes)]] = <<>> /\ parents[nodes[Len(nodes)]] = <<>>
    /\ EdgeCount >= 1

\* s is a prefix of t.
IsPrefix(s, t) == Len(s) <= Len(t) /\ SubSeq(t, 1, Len(s)) = s

\* C17: the graph only grows.  Across every get_or_add_node and add_edge
\* step the registry and the childs and parents lists of each node have
\* their old contents as a prefix of the new ones: no node and no edge
\* entry is removed or moved, and the value of a node never changes.
C17_OnlyGrows ==
    [][/\ IsPrefix(nodes, nodes')
       /\ Len(value) <= Len(value')
       /\ \A n \in Instances :
           /\ value'[n] = value[n]
           /\ IsPrefix(childs[n], childs'[n])
           /\ IsPrefix(parents[n], parents'[n])]_vars

\* add_edge has just appended a second, different child to the list of a
\* node, and another node has two different parents.
C17_Witness ==
    /\ ret[Caller] = Ok
    /\ Len(nodes) >= 3
    /\ \E n \in Instances :
        Len(childs[n]) = 2 /\ childs[n][1] # childs[n][2]
    /\ \E m \in Instances :
        Len(parents[m]) = 2 /\ parents[m][1] # parents[m][2]

\* C18: when add_edge(parent, child) fails with CyclicRelation(value), the
\* value is that of the node at which the cycle would close, the visited
\* node that is the child itself: the text of the child's value, and of no
\* other node's (not the parent's, not an intermediate ancestor's).
C18_CycleNamesChild ==
    [][\A p \in Instances, c \in Instances :
          (ret'[Caller].kind = "CyclicRelation" /\ AddEdge(Caller, p, c)) =>
              /\ ret'[Caller].val = to_string(value[c])
              /\ \A n \in Instances \ {c} :
                  ret'[Caller].val # to_string(value[n])]_vars

\* add_edge(p, c) was refused with the value of c, where c is reached from
\* p through the intermediate node m only, and c was registered last.
C18_Witness ==
    \E p \in Instances, m \in Instances, c \in Instances :
        /\ p # m /\ m # c /\ p # c
        /\ parents[p] = <<m>> /\ parents[m] = <<c>>
        /\ nodes[Len(nodes)] = c
        /\ ret[Caller] = CyclicRelation(to_string(value[c]))

\* C20: in every state reached by completed get_or_add_node and add_edge
\* calls adjacency is symmetric: for every pair of nodes (P, C), C occurs in
\* the childs of P as many times as P occurs in the parents of C.
C20_AdjacencySymmetric ==
    \A p \in Instances, c \in Instances :
        Count(childs[p], c) = Count(parents[c], p)

\* The same edge was added twice, and another edge once: the lists hold
\* two entries on either side of the first and one of the second.
C20_Witness ==
    \E p \in Instances, c \in Instances, d \in Instances :
        /\ c # d
        /\ Count(childs[p], c) = 2 /\ Count(parents[c], p) = 2
        /\ Count(childs[p], d) = 1 /\ Count(parents[d], p) = 1

\* The nodes a walk from p gets to when it follows the parents entries that
\* still have a node.
RECURSIVE LiveWalk(_)
LiveWalk(S) ==
    LET T == S \cup UNION {Range(parents[n]) \cap Live : n \in S}
    IN  IF T = S THEN S ELSE LiveWalk(T)
LiveAncestry(p) == LiveWalk({p})

\* C19: during the walk of add_edge a parents entry whose node no longer
\* exists (the graph and the handles that kept it were dropped) is skipped.  It gives no error and the walk goes on to the living
\* ancestors, so the result of the call is that of the walk over the living
\* ancestors alone: CyclicRelation of the child when the child is among
\* them, success otherwise.
C19_DeadParentsSkipped ==
    [][\A p \in Instances, c \in Instances :
          (/\ dropped
           /\ \E n \in LiveAncestry(p) : ~(Range(parents[n]) \subseteq Live)
           /\ AddEdge(Caller, p, c)) =>
              ret'[Caller] = IF c \in LiveAncestry(p)
                             THEN CyclicRelation(to_string(value[c]))
                             ELSE Ok]_vars

\* After the graph and the handle of d were dropped, add_edge(p, c) was
\* refused for a node p whose parents are d, which is gone, and then c.
C19_Witness ==
    /\ dropped
    /\ \E p \in Held, c \in Held, d \in Instances \ Live :
        /\ p # c
        /\ parents[p] = <<d, c>>
        /\ ret[Caller] = CyclicRelation(to_string(value[c]))

C22_NoDeduplication ==
    [][\A p \in Instances, c \in Instances :
          (c \in Range(childs[p]) /\ AddEdge(Caller, p, c)) =>
              /\ ret'[Caller] = Ok
              /\ childs'[p] = Append(childs[p], c)
              /\ parents'[c] = Append(parents[c], p)
              /\ Count(childs'[p], c) = Count(childs[p], c) + 1
              /\ Count(parents'[c], p) = Count(parents[c], p) + 1]_vars

\* The same call has succeeded twice in a row: both lists hold the entry
\* twice and nothing else.
C22_Witness ==
    /\ ret[Caller] = Ok
    /\ \E p \in Instances, c \in Instances :
        childs[p] = <<c, c>> /\ parents[c] = <<p, p>>

\* The upward paths that start with the sequence of nodes path and go on
\* through parents entries for at most k more steps.
RECURSIVE UpPaths(_, _)
UpPaths(path, k) ==
    IF k = 0 THEN {path}
    ELSE LET last == path[Len(path)]
         IN  {path} \cup UNION {UpPaths(Append(path, parents[last][i]), k - 1)
                                : i \in 1 .. Len(parents[last])}

\* C23: in single-threaded use, in every state reached from the empty graph
\* by get_or_add_node and add_edge calls, the walk of a further add_edge
\* call terminates: no upward path through parents entries has a node
\* twice, so no path is longer than the number of nodes, and the recursion
\* started for any pair (parent, child) ends within that depth.
C23_WalkTerminates ==
    /\ \A n \in Instances : \A path \in UpPaths(<<n>>, Len(value)) :
        /\ Cardinality(Range(path)) = Len(path)
        /\ Len(path) <= Len(value)
    /\ \A p \in Instances, c \in Instances :
        Overflow \notin verify_if_exists_in_parents(p, c, Len(value))
    /\ ret[Caller] # Overflow

\* add_edge has just been refused by a walk that went as deep as there are
\* nodes: it found the child at the upper end of a path through all three
\* nodes of the graph.
C23_Witness ==
    /\ Len(value) = 3
    /\ \E p \in Instances : \E path \in UpPaths(<<p>>, Len(value)) :
        /\ Len(path) = Len(value)
        /\ ret[Caller] = CyclicRelation(to_string(value[path[Len(path)]]))
        /\ path[Len(path)] \notin Range(parents[p])

====
